---- MODULE Spec2Model ----
(***************************************************************************)
(* Model of the buster web front-end: the pie tooltip helper, the          *)
(* dataset-group query/mutation hooks over the query cache, the            *)
(* permission-group REST requests, the user datasets list and the          *)
(* x-axis title hook.                                                      *)
(*                                                                         *)
(* Arrays are TLA+ sequences: index k of the model is index k-1 of the     *)
(* JavaScript array.                                                       *)
(***************************************************************************)
EXTENDS Integers, Sequences, FiniteSets, TLC

VARIABLES
    \* ---- pie tooltip (pieTooltipHelper.ts) ----
    datasets,            \* ChartDataset[]: [label, hidden, data]
    dataPoints,          \* dataPoints[0]: [dataIndex, datasetIndex]
    seriesTotals,        \* chart.$totalizer.seriesTotals
    keyToUsePercentage,  \* string[] (only .includes is used): a set of labels
    tooltip,             \* what the last call returned
    fmtCalls,            \* the calls of percentageFormatter made by the last call
    \* ---- dataset-group hooks (dataset_groups/queryRequests.ts) ----
    queryCache,          \* the query client's cached data, by query key
    mutations,           \* the mutationFn invocations, in invocation order
    requests,            \* the REST requests sent, in sending order
    invalidations,       \* the invalidateQueries calls, in call order
    completed,           \* the requests that got their response, in completion order
    \* ---- UserDatasetsListContainer.tsx, PermissionAssignedCell ----
    filteredDatasets,    \* the filteredDatasets prop
    selectEvents,        \* the selections made in assigned cells, in order
    mutateCalls,         \* the calls of the user's update mutation, in order
    \* ---- permission_groups/requests.ts ----
    pgCalls,             \* the calls of the update request functions, in order
    pgRequests,          \* the requests handed to mainApi, in order
    \* ---- useXAxisTitle ----
    axisProps,           \* the props of the last render
    axisHook,            \* the hook's memo cells and what it returned
    \* ---- EditLabelStyle ----
    styleProps,          \* the props of the last render
    styleHook,           \* the component's memo cells and what it returned
    styleUpdates,        \* the calls of onUpdateColumnConfig, in order
    \* ---- PermissionsAppContainer ----
    app,                 \* currentRoute, the selectedApp state, the scheduled effect
    appRenders           \* the selectedApp of each render, in order

pieVars == <<datasets, dataPoints, seriesTotals, keyToUsePercentage, tooltip, fmtCalls>>
dgVars == <<queryCache, mutations, requests, invalidations, completed>>

uiVars == <<filteredDatasets, selectEvents, mutateCalls>>
pgVars == <<pgCalls, pgRequests>>
axisVars == <<axisProps, axisHook>>
styleVars == <<styleProps, styleHook, styleUpdates>>
appVars == <<app, appRenders>>
viewVars == <<styleVars, appVars>>

vars == <<pieVars, dgVars, uiVars, pgVars, axisVars, viewVars>>

\* ------------------------------------------------------------------ bounds
MaxDatasets == 2
MaxMutations == 2
MaxGroupMutations == 1
MaxRows == 2
MaxSelects == 2
MaxCalls == 2
MaxClicks == 2
MaxRenders == 6

\* ------------------------------------------------------------ JS values
Undefined == [undefined |-> TRUE]

RECURSIVE Gcd(_, _)
Gcd(a, b) == IF b = 0 THEN a ELSE Gcd(b, a % b)

\* a / b of two non-negative numbers: an exact fraction in lowest terms,
\* Infinity for x / 0 and NaN for 0 / 0
JSDivide(a, b) ==
    IF b = 0 THEN (IF a = 0 THEN [nan |-> TRUE] ELSE [infinity |-> TRUE])
    ELSE LET g == Gcd(a, b) IN [num |-> a \div g, den |-> b \div g]

\* q * n of a quotient and a non-negative integer n > 0
JSTimes(q, n) ==
    IF "num" \in DOMAIN q THEN JSDivide(q.num * n, q.den) ELSE q

\* ------------------------------------------------------------ pie tooltip
Labels == {"a", "b"}
DataValues == {1, 3}
TotalValues == {0, 4}
DataIndexes == {1, 2}

columnLabelFormats == [l \in Labels |-> [columnFormat |-> l]]

\* the formatters of ./helper and commonHelpers: what they were called with
percentageFormatter(percentage, label, formats) ==
    [formatter |-> "percentageFormatter", value |-> percentage, label |-> label,
     formats |-> formats]

formatChartLabelDelimiter(label, formats) ==
    [formatter |-> "formatChartLabelDelimiter", label |-> label, formats |-> formats]

formatChartValueDelimiter(rawValue, label, formats) ==
    [formatter |-> "formatChartValueDelimiter", value |-> rawValue, label |-> label,
     formats |-> formats]

\* (dataset.backgroundColor as string[])[i] of the dataset at index k
backgroundColor(k, i) == [color |-> <<k, i>>]

\* the number getPiePercentage would hand over without the scaling to percent
PiePercentageValue_NoScale(dataPointDataIndex, datasetIndex, datasetData, totals) ==
    JSDivide(datasetData[dataPointDataIndex], totals[datasetIndex])

\* the number getPiePercentage hands to percentageFormatter
PiePercentageValue(dataPointDataIndex, datasetIndex, datasetData, totals) ==
    LET compareValue == datasetData[dataPointDataIndex]
        total == totals[datasetIndex]
    IN  JSTimes(JSDivide(compareValue, total), 100)

getPiePercentage(dataPointDataIndex, datasetIndex, datasetData, label, formats, totals) ==
    percentageFormatter(
        PiePercentageValue(dataPointDataIndex, datasetIndex, datasetData, totals),
        label, formats)

\* Array.prototype.findIndex: the first index whose element satisfies the
\* callback (test[k] is the callback's result on s[k]), 0 for JavaScript's -1
FindIndex(s, test) ==
    IF \E k \in 1..Len(s) : test[k]
    THEN CHOOSE k \in 1..Len(s) : test[k] /\ \A j \in 1..(k - 1) : ~test[j]
    ELSE 0

\* a filter that keeps every dataset, hidden or not
HiddenIndexes_All(ds, k) == [n \in 1..(Len(ds) - k + 1) |-> n + k - 1]

\* a usePercentage that is true for every label
includes_Always(keys, label) == TRUE

\* keyToUsePercentage.includes(label)
includes(keys, label) == label \in keys

\* the indexes (in datasets) of datasets.filter((dataset) => dataset.hidden), in order
RECURSIVE HiddenIndexes(_, _)
HiddenIndexes(ds, k) ==
    IF k > Len(ds) THEN <<>>
    ELSE (IF ds[k].hidden THEN <<k>> ELSE <<>>) \o HiddenIndexes(ds, k + 1)

\* the dataset index pieTooltipHelper passes to getPiePercentage for tooltipDataset
TotalIndexOf(ds, tooltipDataset) ==
    LET SameHidden(dataset) == dataset.label = tooltipDataset.label /\ dataset.hidden
    IN  FindIndex(ds, [k \in 1..Len(ds) |-> SameHidden(ds[k])])

pieTooltipHelper(ds, points, totals, keys) ==
    LET dataPointDataIndex == points.dataIndex
        dataPointDatasetIndex == points.datasetIndex
        dataPointDataset == ds[dataPointDatasetIndex]
        hiddenIdx == HiddenIndexes(ds, 1)
        dataPointIsInTooltip ==
            \E n \in 1..Len(hiddenIdx) : ds[hiddenIdx[n]].label = dataPointDataset.label
        Item(tooltipDataset) ==
            LET isActiveDataset == tooltipDataset.label = dataPointDataset.label
                color == IF isActiveDataset
                         THEN backgroundColor(dataPointDatasetIndex, dataPointDataIndex)
                         ELSE Undefined
                formattedLabel ==
                    formatChartLabelDelimiter(tooltipDataset.label, columnLabelFormats)
                rawValue == tooltipDataset.data[dataPointDataIndex]
                formattedValue ==
                    formatChartValueDelimiter(rawValue, tooltipDataset.label,
                                              columnLabelFormats)
                usePercentage == includes(keys, tooltipDataset.label)
                formattedPercentage ==
                    IF usePercentage
                    THEN getPiePercentage(dataPointDataIndex,
                                          TotalIndexOf(ds, tooltipDataset),
                                          tooltipDataset.data, tooltipDataset.label,
                                          columnLabelFormats, totals)
                    ELSE Undefined
            IN  [usePercentage |-> usePercentage,
                 color |-> color,
                 seriesType |-> "pie",
                 formattedLabel |-> formattedLabel,
                 values |-> <<[formattedValue |-> formattedValue,
                               formattedLabel |-> formattedLabel,
                               formattedPercentage |-> formattedPercentage]>>]
    IN  IF ~dataPointIsInTooltip THEN <<>>
        ELSE [n \in 1..Len(hiddenIdx) |-> Item(ds[hiddenIdx[n]])]

\* the getPiePercentage calls pieTooltipHelper makes, in order: one per hidden
\* dataset whose label is in keyToUsePercentage
RECURSIVE PercentageCallsFrom(_, _, _, _)
PercentageCallsFrom(ds, points, keys, hiddenIdx) ==
    IF hiddenIdx = <<>> THEN <<>>
    ELSE LET tooltipDataset == ds[Head(hiddenIdx)]
             call == [dataPointDataIndex |-> points.dataIndex,
                      datasetIndex |-> TotalIndexOf(ds, tooltipDataset),
                      datasetData |-> tooltipDataset.data,
                      label |-> tooltipDataset.label,
                      hiddenAt |-> Head(hiddenIdx)]
         IN  (IF includes(keys, tooltipDataset.label) THEN <<call>> ELSE <<>>)
             \o PercentageCallsFrom(ds, points, keys, Tail(hiddenIdx))

PercentageCalls(ds, points, keys) ==
    LET hiddenIdx == HiddenIndexes(ds, 1)
    IN  IF \E n \in 1..Len(hiddenIdx) :
               ds[hiddenIdx[n]].label = ds[points.datasetIndex].label
        THEN PercentageCallsFrom(ds, points, keys, hiddenIdx)
        ELSE <<>>

NotCalled == [fn |-> "none"]

DatasetValues ==
    [label : Labels, hidden : BOOLEAN, data : [DataIndexes -> DataValues]]

PieInit ==
    /\ \E n \in 1..MaxDatasets :
        /\ datasets \in [1..n -> DatasetValues]
        /\ seriesTotals \in [1..n -> TotalValues]
        /\ dataPoints \in [dataIndex : DataIndexes, datasetIndex : 1..n]
    /\ keyToUsePercentage \in SUBSET Labels
    /\ tooltip = NotCalled
    /\ fmtCalls = <<>>

\* a tooltip callback of the chart calls pieTooltipHelper
PieTooltipHelper ==
    /\ tooltip = NotCalled
    /\ tooltip' = [fn |-> "pieTooltipHelper",
                   items |-> pieTooltipHelper(datasets, dataPoints, seriesTotals,
                                              keyToUsePercentage)]
    /\ fmtCalls' = PercentageCalls(datasets, dataPoints, keyToUsePercentage)
    /\ UNCHANGED <<datasets, dataPoints, seriesTotals, keyToUsePercentage>>

\* a direct call of the exported getPiePercentage for the hovered point
GetPiePercentage ==
    /\ tooltip = NotCalled
    /\ LET k == dataPoints.datasetIndex
           i == dataPoints.dataIndex
       IN  /\ tooltip' = [fn |-> "getPiePercentage",
                          returned |-> getPiePercentage(i, k, datasets[k].data,
                                                        datasets[k].label,
                                                        columnLabelFormats, seriesTotals)]
           /\ fmtCalls' = <<[dataPointDataIndex |-> i, datasetIndex |-> k,
                             datasetData |-> datasets[k].data,
                             label |-> datasets[k].label, hiddenAt |-> k]>>
    /\ UNCHANGED <<datasets, dataPoints, seriesTotals, keyToUsePercentage>>



\* ------------------------------------------------ dataset-group hooks
datasetGroupId == "g1"
Kinds == {"users", "datasets", "permission_groups"}
Errors == {"e1"}
None == [none |-> TRUE]

Absent == [absent |-> TRUE]
TypeError == [error |-> "TypeError"]

\* the query keys ['dataset_groups', datasetGroupId, kind]
QueryKey(kind) == <<"dataset_groups", datasetGroupId, kind>>
ListKeys == {QueryKey(kind) : kind \in Kinds}

\* what GET /dataset_groups/{id}/{kind} answers: rows with an id, the assigned
\* flag and a further field
ServerList(kind) ==
    <<[id |-> "r1", assigned |-> FALSE, name |-> <<kind, "r1">>],
      [id |-> "r2", assigned |-> TRUE, name |-> <<kind, "r2">>]>>

\* { id: string; assigned: boolean }[]: single entries, the same id twice with
\* both orders of the flags, an id that is in no list ("r3")
Entry(id, assigned) == [id |-> id, assigned |-> assigned]
DataLists ==
    {<<Entry("r1", TRUE)>>, <<Entry("r1", FALSE)>>, <<Entry("r3", TRUE)>>,
     <<Entry("r1", TRUE), Entry("r1", FALSE)>>,
     <<Entry("r1", FALSE), Entry("r1", TRUE)>>,
     <<Entry("r3", FALSE), Entry("r1", TRUE)>>}

\* Array.prototype.find: the first element that satisfies the callback
\* (test[k] is the callback's result on s[k]), or undefined
Find(s, test) ==
    LET k == FindIndex(s, test) IN IF k = 0 THEN Undefined ELSE s[k]

\* the updater handed to setQueryData:
\*   oldData.map((row) => { const u = data.find((d) => d.id === row.id);
\*                          if (u) return { ...row, assigned: u.assigned }; return row; })
\* an updater that puts the matching entry of data in the place of the row
OptimisticUpdater_ReplaceRow(oldData, data) ==
    [n \in 1..Len(oldData) |->
        LET row == oldData[n]
            rowToUpdate == Find(data, [k \in 1..Len(data) |-> data[k].id = row.id])
        IN  IF rowToUpdate # Undefined THEN rowToUpdate ELSE row]

OptimisticUpdater(oldData, data) ==
    [n \in 1..Len(oldData) |->
        LET row == oldData[n]
            SameId(d) == d.id = row.id
            rowToUpdate == Find(data, [k \in 1..Len(data) |-> SameId(data[k])])
        IN  IF rowToUpdate # Undefined
            THEN [row EXCEPT !.assigned = rowToUpdate.assigned]
            ELSE row]

\* the request functions of ./requests and ../datasets: the call and its HTTP method
RequestFns ==
    [users |-> "updateDatasetGroupUsers",
     datasets |-> "updateDatasetGroupDatasets",
     permission_groups |-> "updateDatasetGroupPermissionGroups"]

RestCall(fn, method, args) == [fn |-> fn, method |-> method, args |-> args]

updateDatasetGroupList(kind, id, data) == RestCall(RequestFns[kind], "PUT", <<id, data>>)
deleteDatasetGroup(id) == RestCall("deleteDatasetGroup", "DELETE", <<id>>)
updateDatasetGroup(data) == RestCall("updateDatasetGroup", "PUT", <<data>>)
createDatasetGroup(data) == RestCall("createDatasetGroup", "POST", <<data>>)
updateDatasetDatasetGroups(params) == RestCall("updateDatasetDatasetGroups", "PUT", <<params>>)

\* useCreateReactMutation: the mutation settles as the promise of mutationFn does
useCreateReactMutation(outcome) == outcome

Pending == [status |-> "pending"]
Resolved(value) == [status |-> "success", value |-> value]
Rejected(error) == [status |-> "error", error |-> error]

InFlight(r) == requests[r].state = "inflight"
InFlightNow == {r \in 1..Len(requests) : InFlight(r)}

RequestsBy(reqs, m) == {r \in 1..Len(reqs) : reqs[r].by = m}

\* a request as sent by mutation m; cacheSeen is the cached list the request's
\* hook had written when it sent it
Sent(call, m, seen, inflight) ==
    call @@ [by |-> m, state |-> "inflight", cacheSeen |-> seen, sentWhile |-> inflight]

Answered(request, response) ==
    [request EXCEPT !.state = IF response.ok THEN "resolved" ELSE "rejected"]
    @@ [response |-> response]

\* the mutationFn of an update hook with the PUT sent before the cache is written
UpdateMutationFn_PutFirst(kind, data) ==
    /\ Len(mutations) < MaxMutations
    /\ queryCache' = [queryCache EXCEPT ![QueryKey(kind)] =
                          IF @ = Absent THEN @ ELSE OptimisticUpdater(@, data)]
    /\ requests' = Append(requests,
            Sent(updateDatasetGroupList(kind, datasetGroupId, data),
                 Len(mutations) + 1, queryCache[QueryKey(kind)], InFlightNow))
    /\ mutations' = Append(mutations,
            [hook |-> kind, data |-> data, outcome |-> Pending])
    /\ UNCHANGED <<invalidations, completed>>

\* the mutationFn of useUpdateDatasetGroupUsers / Datasets / PermissionGroups:
\* setQueryData calls the updater with the cached data (undefined when the query
\* has none: oldData.map then throws a TypeError and nothing is sent), then the
\* PUT request is sent and its promise returned
UpdateMutationFn(kind, data) ==
    /\ Len(mutations) < MaxMutations
    /\ IF queryCache[QueryKey(kind)] = Absent
       THEN /\ mutations' = Append(mutations,
                    [hook |-> kind, data |-> data,
                     outcome |-> useCreateReactMutation(Rejected(TypeError))])
            /\ UNCHANGED <<queryCache, requests>>
       ELSE /\ queryCache' = [queryCache EXCEPT ![QueryKey(kind)] =
                                  OptimisticUpdater(@, data)]
            /\ requests' = Append(requests,
                    Sent(updateDatasetGroupList(kind, datasetGroupId, data),
                         Len(mutations) + 1, queryCache'[QueryKey(kind)], InFlightNow))
            /\ mutations' = Append(mutations,
                    [hook |-> kind, data |-> data, outcome |-> Pending])
    /\ UNCHANGED <<invalidations, completed>>

useUpdateDatasetGroupUsers ==
    \E data \in DataLists : UpdateMutationFn("users", data)

useUpdateDatasetGroupDatasets ==
    \E data \in DataLists : UpdateMutationFn("datasets", data)

useUpdateDatasetGroupPermissionGroups ==
    \E data \in DataLists : UpdateMutationFn("permission_groups", data)

\* useGetDatasetGroupUsers / Datasets / PermissionGroups: the first fetch of the
\* list fills the cache
useGetDatasetGroupList ==
    \E kind \in Kinds :
        /\ queryCache[QueryKey(kind)] = Absent
        /\ queryCache' = [queryCache EXCEPT ![QueryKey(kind)] = ServerList(kind)]
        /\ UNCHANGED <<mutations, requests, invalidations, completed>>

Responses == [ok : {TRUE}, data : {"body"}] \cup [ok : {FALSE}, error : Errors]

\* an update hook whose mutationFn restores the list it saw when the PUT fails
UpdateSettledCache_Rollback(cache, request, response) ==
    IF response.ok THEN cache
    ELSE [cache EXCEPT ![QueryKey(mutations[request.by].hook)] = ServerList(mutations[request.by].hook)]

\* an update hook that writes its own data into the cache again on success
UpdateSettledCache_WriteOnSuccess(cache, request, response) ==
    IF response.ok
    THEN [cache EXCEPT ![QueryKey(mutations[request.by].hook)] =
              OptimisticUpdater(@, mutations[request.by].data)]
    ELSE cache

\* the cache after the PUT of an update hook has been answered: the mutationFn
\* returns the request's promise and has no handler on it
UpdateSettledCache(cache, request, response) == cache

\* what the promise returned by the mutationFn of an update hook becomes when
\* its PUT has been answered: it is the promise of the request itself
UpdateSettled(response) ==
    IF response.ok THEN Resolved(response.data) ELSE Rejected(response.error)

\* the PUT of an update hook is answered
UpdateResponds ==
    \E r \in 1..Len(requests), response \in Responses :
        /\ InFlight(r)
        /\ mutations[requests[r].by].hook \in Kinds
        /\ requests' = [requests EXCEPT ![r] = Answered(@, response)]
        /\ mutations' = [mutations EXCEPT ![requests[r].by].outcome =
                useCreateReactMutation(UpdateSettled(response))]
        /\ queryCache' = UpdateSettledCache(queryCache, requests[r], response)
        /\ completed' = Append(completed, r)
        /\ UNCHANGED invalidations

DGInit ==
    /\ queryCache = [k \in ListKeys |-> Absent]
    /\ mutations = <<>>
    /\ requests = <<>>
    /\ invalidations = <<>>
    /\ completed = <<>>

PieIdle ==
    /\ datasets = <<>>
    /\ dataPoints = [dataIndex |-> 1, datasetIndex |-> 1]
    /\ seriesTotals = <<>>
    /\ keyToUsePercentage = {}
    /\ tooltip = NotCalled
    /\ fmtCalls = <<>>


\* ------------------------------------------- create / update / delete hooks
DatasetGroupsKey == <<"dataset_groups">>
DatasetListKey(datasetId) == <<"LIST_DATASET_GROUPS_QUERY_KEY", datasetId>>
USER_PERMISSIONS_DATASET_GROUPS_QUERY_KEY(userId) ==
    <<"USER_PERMISSIONS_DATASET_GROUPS_QUERY_KEY", userId>>

GroupIds == {"g1", "g2"}
CreatedGroups == {[id |-> "g3"], [id |-> "g4"]}
GroupDatas == {[name |-> "sales"], [name |-> "ops"]}
\* an optional id left out (undefined, falsy like the empty string)
NoId == ""
OptionalDatasetIds == {NoId, "d1"}
OptionalUserIds == {NoId, "u1"}

\* queryClient.invalidateQueries({ queryKey }) called by mutation m: the matching
\* queries are marked invalidated and refetched; the promise it returns settles
\* when the refetch has (it does not reject)
Invalidated(key, m, awaited, inflight) ==
    [key |-> key, by |-> m, state |-> "refetching", awaited |-> awaited,
     startedWhile |-> inflight]

Refetching(i) == invalidations[i].state = "refetching"

\* useDeleteDatasetGroup: mutationFn(id) sends the DELETE and awaits it
useDeleteDatasetGroup ==
    \E id \in GroupIds :
        /\ Len(mutations) < MaxGroupMutations
        /\ mutations' = Append(mutations,
                [hook |-> "delete", data |-> id, outcome |-> Pending])
        /\ requests' = Append(requests,
                Sent(deleteDatasetGroup(id), Len(mutations) + 1, None, InFlightNow))
        /\ UNCHANGED <<queryCache, invalidations, completed>>

\* useUpdateDatasetGroup: mutationFn(data) sends the PUT and awaits it
useUpdateDatasetGroup ==
    \E data \in GroupDatas :
        /\ Len(mutations) < MaxGroupMutations
        /\ mutations' = Append(mutations,
                [hook |-> "update", data |-> data, outcome |-> Pending])
        /\ requests' = Append(requests,
                Sent(updateDatasetGroup(data), Len(mutations) + 1, None, InFlightNow))
        /\ UNCHANGED <<queryCache, invalidations, completed>>

\* useCreateDatasetGroup(datasetId?, userId?): mutationFn(data) sends the POST
\* and awaits it
useCreateDatasetGroup ==
    \E datasetId \in OptionalDatasetIds, userId \in OptionalUserIds, data \in GroupDatas :
        /\ Len(mutations) < MaxGroupMutations
        /\ mutations' = Append(mutations,
                [hook |-> "create", data |-> data, datasetId |-> datasetId,
                 userId |-> userId, pc |-> "create", res |-> Undefined,
                 outcome |-> Pending])
        /\ requests' = Append(requests,
                Sent(createDatasetGroup(data), Len(mutations) + 1, None, InFlightNow))
        /\ UNCHANGED <<queryCache, invalidations, completed>>

\* the continuation of useDeleteDatasetGroup / useUpdateDatasetGroup with the
\* invalidation in a finally block
AfterAwait_Finally(m, response) ==
    [invalidate |-> <<Invalidated(DatasetGroupsKey, m, FALSE, InFlightNow)>>,
     outcome |-> IF response.ok THEN Resolved(response.data)
                 ELSE Rejected(response.error)]

\* the continuation of useDeleteDatasetGroup / useUpdateDatasetGroup after
\* `const res = await request(...)`: a rejection leaves the function at the
\* await; otherwise ['dataset_groups'] is invalidated (not awaited) and res returned
AfterAwait(m, response) ==
    IF response.ok
    THEN [invalidate |-> <<Invalidated(DatasetGroupsKey, m, FALSE,
                                       InFlightNow \ RequestsBy(requests, m))>>,
          outcome |-> Resolved(response.data)]
    ELSE [invalidate |-> <<>>, outcome |-> Rejected(response.error)]

\* the DELETE / PUT of useDeleteDatasetGroup / useUpdateDatasetGroup is answered
DeleteOrUpdateResponds ==
    \E r \in 1..Len(requests), response \in Responses :
        /\ InFlight(r)
        /\ mutations[requests[r].by].hook \in {"delete", "update"}
        /\ LET m == requests[r].by
               next == AfterAwait(m, response)
           IN  /\ requests' = [requests EXCEPT ![r] = Answered(@, response)]
               /\ invalidations' = invalidations \o next.invalidate
               /\ mutations' = [mutations EXCEPT ![m].outcome =
                                    useCreateReactMutation(next.outcome)]
        /\ completed' = Append(completed, r)
        /\ UNCHANGED queryCache

CreateResponses == [ok : {TRUE}, data : CreatedGroups] \cup [ok : {FALSE}, error : Errors]

\* the part of useCreateDatasetGroup's mutationFn from `if (userId)` on
CreateUserStep(m, userId, res) ==
    IF userId # NoId
    THEN [invalidate |-> <<Invalidated(USER_PERMISSIONS_DATASET_GROUPS_QUERY_KEY(userId),
                                       m, TRUE, InFlightNow)>>,
          pc |-> "user", outcome |-> Pending]
    ELSE [invalidate |-> <<>>, pc |-> "done", outcome |-> Resolved(res)]

\* the continuation of useCreateDatasetGroup after
\* `const res = await createDatasetGroup(data)`: with a datasetId the assignment
\* PUT and the two invalidations are started together and awaited by Promise.all
AfterCreate(m, response) ==
    LET mutation == mutations[m]
        inflight == InFlightNow \ RequestsBy(requests, m)
    IN  IF ~response.ok
        THEN [send |-> <<>>, invalidate |-> <<>>, pc |-> "done",
              outcome |-> Rejected(response.error)]
        ELSE IF mutation.datasetId # NoId
        THEN [send |-> <<Sent(updateDatasetDatasetGroups(
                                 [dataset_id |-> mutation.datasetId,
                                  groups |-> <<[id |-> response.data.id,
                                                assigned |-> TRUE]>>]),
                              m, None, inflight)>>,
              invalidate |-> <<Invalidated(DatasetListKey(mutation.datasetId), m, TRUE,
                                           inflight \cup {Len(requests) + 1}),
                               Invalidated(DatasetGroupsKey, m, TRUE,
                                           inflight \cup {Len(requests) + 1})>>,
              pc |-> "all", outcome |-> Pending]
        ELSE LET step == CreateUserStep(m, mutation.userId, response.data)
             IN  [send |-> <<>>, invalidate |-> step.invalidate,
                  pc |-> step.pc, outcome |-> step.outcome]

\* the POST of useCreateDatasetGroup is answered
CreateResponds ==
    \E r \in 1..Len(requests), response \in CreateResponses :
        /\ InFlight(r)
        /\ mutations[requests[r].by].hook = "create"
        /\ mutations[requests[r].by].pc = "create"
        /\ LET m == requests[r].by
               next == AfterCreate(m, response)
           IN  /\ requests' = [requests EXCEPT ![r] = Answered(@, response)] \o next.send
               /\ invalidations' = invalidations \o next.invalidate
               /\ mutations' = [mutations EXCEPT
                                    ![m].pc = next.pc,
                                    ![m].res = IF response.ok THEN response.data ELSE @,
                                    ![m].outcome = useCreateReactMutation(next.outcome)]
        /\ completed' = Append(completed, r)
        /\ UNCHANGED queryCache

\* whether everything Promise.all of mutation m waits for is fulfilled, given
\* the requests and invalidations as they are then
AllFulfilled(reqs, invs, m) ==
    /\ \A r \in RequestsBy(reqs, m) : reqs[r].state = "resolved"
    /\ \A i \in 1..Len(invs) : invs[i].by = m => invs[i].state = "done"

\* the assignment PUT of useCreateDatasetGroup is answered: Promise.all rejects
\* at once when it rejects, and is fulfilled when it was the last of the three
AssignmentResponds ==
    \E r \in 1..Len(requests), response \in Responses :
        /\ InFlight(r)
        /\ mutations[requests[r].by].hook = "create"
        /\ mutations[requests[r].by].pc = "all"
        /\ LET m == requests[r].by
               reqs == [requests EXCEPT ![r] = Answered(@, response)]
               step == CreateUserStep(m, mutations[m].userId, mutations[m].res)
           IN  /\ requests' = reqs
               /\ IF ~response.ok
                  THEN /\ mutations' = [mutations EXCEPT
                              ![m].pc = "done",
                              ![m].outcome = useCreateReactMutation(Rejected(response.error))]
                       /\ UNCHANGED invalidations
                  ELSE IF AllFulfilled(reqs, invalidations, m)
                  THEN /\ mutations' = [mutations EXCEPT
                              ![m].pc = step.pc,
                              ![m].outcome = useCreateReactMutation(step.outcome)]
                       /\ invalidations' = invalidations \o step.invalidate
                  ELSE UNCHANGED <<mutations, invalidations>>
        /\ completed' = Append(completed, r)
        /\ UNCHANGED queryCache

\* the refetch started by an invalidateQueries call settles, and so does the
\* promise the call returned: a mutationFn awaiting it goes on
RefetchSettles ==
    \E i \in 1..Len(invalidations) :
        /\ Refetching(i)
        /\ LET m == invalidations[i].by
               invs == [invalidations EXCEPT ![i].state = "done"]
           IN  IF mutations[m].hook = "create" /\ mutations[m].pc = "all"
                  /\ AllFulfilled(requests, invs, m)
               THEN LET step == CreateUserStep(m, mutations[m].userId, mutations[m].res)
                    IN  /\ invalidations' = invs \o step.invalidate
                        /\ mutations' = [mutations EXCEPT
                               ![m].pc = step.pc,
                               ![m].outcome = useCreateReactMutation(step.outcome)]
               ELSE IF mutations[m].hook = "create" /\ mutations[m].pc = "user"
               THEN /\ invalidations' = invs
                    /\ mutations' = [mutations EXCEPT
                           ![m].pc = "done",
                           ![m].outcome = useCreateReactMutation(Resolved(mutations[m].res))]
               ELSE /\ invalidations' = invs
                    /\ UNCHANGED mutations
        /\ UNCHANGED <<queryCache, requests, completed>>

\* ------------------------------------------- user datasets list (settings)
userId == "u1"
DatasetIds == {"d1", "d2", "d3"}
UserDatasets == [id : DatasetIds, assigned : BOOLEAN]

DistinctIds(list) == \A i, j \in 1..Len(list) : list[i].id = list[j].id => i = j

DatasetLists ==
    {list \in UNION {[1..n -> UserDatasets] : n \in 0..MaxRows} : DistinctIds(list)}

\* Array.prototype.filter: the elements that satisfy the callback, in order
\* (test[k] is the callback's result on s[k])
Filter(s, test) ==
    LET kept[k \in 0..Len(s)] ==
            IF k = 0 THEN <<>>
            ELSE IF test[k] THEN Append(kept[k - 1], s[k]) ELSE kept[k - 1]
    IN  kept[Len(s)]

\* the reduce of UserDatasetsListContainer: the datasets split by assigned,
\* each as a list row
ListRow(dataset) ==
    [id |-> dataset.id, data |-> dataset,
     link |-> <<"APP_SETTINGS_USERS_ID", dataset.id>>]

canQueryPermissionUsers(list) ==
    LET IsAssigned(d) == d.assigned
        assignedOnes == Filter(list, [k \in 1..Len(list) |-> IsAssigned(list[k])])
    IN  [n \in 1..Len(assignedOnes) |-> ListRow(assignedOnes[n])]

cannotQueryPermissionUsers(list) ==
    LET NotAssigned(d) == ~d.assigned
        others == Filter(list, [k \in 1..Len(list) |-> NotAssigned(list[k])])
    IN  [n \in 1..Len(others) |-> ListRow(others[n])]

\* Number.prototype.toString: the decimal digits
RECURSIVE NumberToString(_)
NumberToString(n) ==
    LET digit == <<"0", "1", "2", "3", "4", "5", "6", "7", "8", "9">>[(n % 10) + 1]
    IN  IF n < 10 THEN <<digit>> ELSE NumberToString(n \div 10) \o <<digit>>

\* a section header that is shown whatever its group holds
SectionRow_NeverHidden(id, title, group) ==
    [id |-> id, data |-> [empty |-> TRUE], hidden |-> FALSE,
     rowSection |-> [title |-> title, secondaryTitle |-> NumberToString(Len(group))]]

SectionRow(id, title, group) ==
    [id |-> id, data |-> [empty |-> TRUE], hidden |-> Len(group) = 0,
     rowSection |-> [title |-> title, secondaryTitle |-> NumberToString(Len(group))]]

\* the rows memo of UserDatasetsListContainer
ListRows(list) ==
    LET can == canQueryPermissionUsers(list)
        cannot == cannotQueryPermissionUsers(list)
        Shown(row) == ~("hidden" \in DOMAIN row /\ row.hidden)
        all == <<SectionRow("header-assigned", "Assigned", can)>> \o can
               \o <<SectionRow("header-not-assigned", "Not Assigned", cannot)>> \o cannot
    IN  Filter(all, [k \in 1..Len(all) |-> Shown(all[k])])

\* PermissionAssignedCell: <Select onSelect={(value) => onSelect({ id, assigned: value })}>
PermissionAssignedCell_onSelect(id, assigned, value) ==
    [id |-> id, assigned |-> value]

\* onSelectAssigned sending every listed dataset with the selected value
onSelectAssigned_AllRows(params) ==
    [n \in 1..Len(filteredDatasets) |->
        [id |-> filteredDatasets[n].id, assigned |-> params.assigned]]

\* onSelectAssigned: await updateUserDatasetGroups([params])
onSelectAssigned(params) == <<params>>

\* a value is selected in the assigned cell of a rendered dataset row
SelectAssigned ==
    \E n \in 1..Len(ListRows(filteredDatasets)), value \in BOOLEAN :
        LET row == ListRows(filteredDatasets)[n]
        IN  /\ "rowSection" \notin DOMAIN row
            /\ Len(selectEvents) < MaxSelects
            /\ selectEvents' = Append(selectEvents, [id |-> row.id, value |-> value])
            /\ mutateCalls' = mutateCalls \o
                   <<[hook |-> "useUpdateUserDatasetGroups", userId |-> userId,
                      data |-> onSelectAssigned(
                          PermissionAssignedCell_onSelect(row.data.id, row.data.assigned,
                                                          value))]>>
            /\ UNCHANGED filteredDatasets

\* the parent renders the list with other datasets (a search, a refetch)
SetFilteredDatasets ==
    /\ filteredDatasets' \in DatasetLists
    /\ filteredDatasets' # filteredDatasets
    /\ UNCHANGED <<selectEvents, mutateCalls>>

UIInit ==
    /\ filteredDatasets \in DatasetLists
    /\ selectEvents = <<>>
    /\ mutateCalls = <<>>

UIIdle ==
    /\ filteredDatasets = <<>>
    /\ selectEvents = <<>>
    /\ mutateCalls = <<>>

\* --------------------------------------- permission group requests (REST)
PermissionGroupIds == {"p1", "p2"}
PutBodies ==
    {<<>>,
     <<[id |-> "r1", assigned |-> TRUE]>>,
     <<[id |-> "r1", assigned |-> FALSE], [id |-> "r3", assigned |-> TRUE]>>}
ResponseBodies == {"body1", "body2"}

\* mainApi.put(url, data)
mainApi_put(url, data) == [method |-> "PUT", url |-> url, body |-> data]

\* `/permission_groups/${id}/users` and its siblings, as path segments
updatePermissionGroupUsers(params) ==
    mainApi_put(<<"permission_groups", params.id, "users">>, params.data)

\* updatePermissionGroupDatasets with the path of its neighbour
updatePermissionGroupDatasets_UsersPath(params) ==
    mainApi_put(<<"permission_groups", params.id, "users">>, params.data)

updatePermissionGroupDatasets(params) ==
    mainApi_put(<<"permission_groups", params.id, "datasets">>, params.data)

updatePermissionGroupDatasetGroups(params) ==
    mainApi_put(<<"permission_groups", params.id, "dataset_groups">>, params.data)

\* .then((res) => res.data) on the promise of the client: a rejection passes through
ThenData(settled) ==
    IF settled.ok THEN Resolved(settled.res.data) ELSE Rejected(settled.error)

PGCall(fn, params, request) ==
    /\ Len(pgCalls) < MaxCalls
    /\ pgCalls' = Append(pgCalls, [fn |-> fn, params |-> params, outcome |-> Pending])
    /\ pgRequests' = Append(pgRequests,
            request @@ [by |-> Len(pgCalls) + 1, state |-> "inflight"])

CallUpdatePermissionGroupUsers ==
    \E params \in [id : PermissionGroupIds, data : PutBodies] :
        PGCall("updatePermissionGroupUsers", params, updatePermissionGroupUsers(params))

CallUpdatePermissionGroupDatasets ==
    \E params \in [id : PermissionGroupIds, data : PutBodies] :
        PGCall("updatePermissionGroupDatasets", params,
               updatePermissionGroupDatasets(params))

CallUpdatePermissionGroupDatasetGroups ==
    \E params \in [id : PermissionGroupIds, data : PutBodies] :
        PGCall("updatePermissionGroupDatasetGroups", params,
               updatePermissionGroupDatasetGroups(params))

ClientSettlements ==
    [ok : {TRUE}, res : [data : ResponseBodies, status : {200}]]
    \cup [ok : {FALSE}, error : Errors]

\* the client settles the promise of a PUT
PGResponds ==
    \E r \in 1..Len(pgRequests), settled \in ClientSettlements :
        /\ pgRequests[r].state = "inflight"
        /\ pgRequests' = [pgRequests EXCEPT ![r] =
                [@ EXCEPT !.state = IF settled.ok THEN "resolved" ELSE "rejected"]
                @@ [settled |-> settled]]
        /\ pgCalls' = [pgCalls EXCEPT ![pgRequests[r].by].outcome = ThenData(settled)]

PGInit ==
    /\ pgCalls = <<>>
    /\ pgRequests = <<>>

\* ------------------------------------------------------- useXAxisTitle
Columns == {"c1", "c2"}
AXIS_TITLE_SEPARATOR == [str |-> "AXIS_TITLE_SEPARATOR"]
Str(s) == IF s = "" THEN <<>> ELSE <<[str |-> s]>>

\* formatLabel(x, columnLabelFormats[x], true) of @/utils/columnFormatter
formatLabel(x, format, useColumnLabel) ==
    [formatLabel |-> x, format |-> format, useColumnLabel |-> useColumnLabel]

\* Array.prototype.join over the labels
RECURSIVE Join(_, _)
Join(labels, separator) ==
    IF labels = <<>> THEN <<>>
    ELSE IF Len(labels) = 1 THEN <<labels[1]>>
    ELSE <<labels[1], separator>> \o Join(Tail(labels), separator)

\* the props of the hook: arrays and objects carry an identity (ref), which a
\* new array or object changes also when its content is the same
AxisTitles == {"undefined", "", "Sales"}
FormatMaps == {[c \in Columns |-> "f1"], [c \in Columns |-> IF c = "c1" THEN "f2" ELSE "f1"]}
AxisLists == {<<"c1">>, <<"c2">>, <<"c1", "c2">>}
Refs == {0, 1}

AxisProps ==
    [xAxis : [ref : Refs, val : {<<"c1">>, <<"c2">>}],
     columnLabelFormats : [ref : Refs, val : FormatMaps],
     isSupportedChartForAxisTitles : BOOLEAN,
     xAxisAxisTitle : AxisTitles,
     xAxisShowAxisTitle : BOOLEAN,
     selectedAxis : [ref : Refs, x : AxisLists]]

\* the body of the xAxisTitle memo
ComputeXAxisTitle(p) ==
    IF ~p.isSupportedChartForAxisTitles \/ p.xAxisAxisTitle = "" \/ ~p.xAxisShowAxisTitle
    THEN Str("")
    ELSE IF p.xAxisAxisTitle # "undefined"
    THEN Str(p.xAxisAxisTitle)
    ELSE Join([n \in 1..Len(p.selectedAxis.x) |->
                  formatLabel(p.selectedAxis.x[n],
                              p.columnLabelFormats.val[p.selectedAxis.x[n]], TRUE)],
              AXIS_TITLE_SEPARATOR)

\* the dependency list of the xAxisColumnLabelFormats memo
FormatsDeps(p) ==
    <<p.xAxis.ref, p.isSupportedChartForAxisTitles, p.columnLabelFormats.ref>>

\* the dependency list of the xAxisTitle memo; formatsRef is the identity of the
\* array the xAxisColumnLabelFormats memo returned
TitleDeps(p, formatsRef) ==
    <<p.xAxisAxisTitle, p.isSupportedChartForAxisTitles, p.xAxisShowAxisTitle,
      p.xAxis.ref, formatsRef>>

\* useMemo: the first render computes; a later one computes when a dependency changed
Unmounted == [mounted |-> FALSE]

\* one render of useXAxisTitle with props p
RenderXAxisTitle(p) ==
    LET first == axisHook = Unmounted
        formatsStale == first \/ axisHook.formatsDeps # FormatsDeps(p)
        \* a recomputed xAxisColumnLabelFormats is a new array
        formatsRef == IF first THEN 0
                      ELSE IF formatsStale THEN 1 - axisHook.formatsRef
                      ELSE axisHook.formatsRef
        titleStale == first \/ axisHook.titleDeps # TitleDeps(p, formatsRef)
    IN  axisHook' = [mounted |-> TRUE,
                     formatsDeps |-> IF formatsStale THEN FormatsDeps(p)
                                     ELSE axisHook.formatsDeps,
                     formatsRef |-> formatsRef,
                     titleDeps |-> IF titleStale THEN TitleDeps(p, formatsRef)
                                   ELSE axisHook.titleDeps,
                     xAxisTitle |-> IF titleStale THEN ComputeXAxisTitle(p)
                                    ELSE axisHook.xAxisTitle]

\* a prop that holds an object: it stays the same object or becomes a new one
NextObject(old, new) == new = old \/ new.ref = 1 - old.ref

\* the chart renders the hook: the first time, or again with props changed
UseXAxisTitle ==
    \E p \in AxisProps :
        /\ \/ /\ axisHook = Unmounted
              /\ p.xAxis.ref = 0
              /\ p.columnLabelFormats.ref = 0
              /\ p.selectedAxis.ref = 0
           \/ /\ axisHook # Unmounted
              /\ p # axisProps
              /\ NextObject(axisProps.xAxis, p.xAxis)
              /\ NextObject(axisProps.columnLabelFormats, p.columnLabelFormats)
              /\ NextObject(axisProps.selectedAxis, p.selectedAxis)
        /\ axisProps' = p
        /\ RenderXAxisTitle(p)

AxisInit ==
    /\ axisProps = None
    /\ axisHook = Unmounted


\* ------------------------------------------------------- EditLabelStyle
\* IColumnLabelFormat['columnType'], ['convertNumberTo'] and ['style']
ColumnTypes == {"number", "date", "text"}
ConvertNumberTos == {"null", "day_of_week"}
LabelStyles == {"number", "percent", "currency", "date", "string"}

\* JavaScript truthiness of a convertNumberTo value
Truthy(v) == v \notin {"null", "undefined", ""}

\* ColumnTypeIcon of ../config: the segment of each style
ColumnTypeIcon == [s \in LabelStyles |-> [value |-> s, tooltip |-> <<"tooltip", s>>]]

StyleProps ==
    [style : {"number", "date"}, columnType : ColumnTypes,
     convertNumberTo : ConvertNumberTos]

\* the body of the enabledOptions memo
ComputeEnabledOptions(columnType, convertNumberTo) ==
    IF columnType = "number"
    THEN LET all == <<"number", "percent", "currency",
                      IF Truthy(convertNumberTo) THEN "date" ELSE "undefined">>
         IN  Filter(all, [k \in 1..Len(all) |-> Truthy(all[k])])
    ELSE IF columnType = "date" THEN <<"date">>
    ELSE <<>>

\* the dependency list of the enabledOptions memo
EnabledOptionsDeps(p) == <<p.columnType>>

\* the body of the options memo: the value of each segment (its label is an icon)
ComputeOptions(enabledOptions) ==
    [n \in 1..Len(enabledOptions) |-> [value |-> ColumnTypeIcon[enabledOptions[n]].value]]

NotRendered == [mounted |-> FALSE]

\* what the component returns: null, or the AppSegmented with options and value
StyleElement(p, enabledOptions, options) ==
    IF Len(enabledOptions) = 0 THEN [null |-> TRUE]
    ELSE [options |-> options, value |-> p.style]

\* one render of EditLabelStyle with props p; options depends on enabledOptions,
\* which is a new array exactly when its memo recomputes
RenderEditLabelStyle(p) ==
    LET first == styleHook = NotRendered
        stale == first \/ styleHook.deps # EnabledOptionsDeps(p)
        enabledOptions ==
            IF stale THEN ComputeEnabledOptions(p.columnType, p.convertNumberTo)
            ELSE styleHook.enabledOptions
        options == IF stale THEN ComputeOptions(enabledOptions) ELSE styleHook.options
    IN  styleHook' = [mounted |-> TRUE,
                      deps |-> IF stale THEN EnabledOptionsDeps(p) ELSE styleHook.deps,
                      enabledOptions |-> enabledOptions,
                      options |-> options,
                      element |-> StyleElement(p, enabledOptions, options)]

\* React renders the component: the first time, or again (React.memo) when a
\* prop has changed
EditLabelStyle ==
    \E p \in StyleProps :
        /\ styleHook = NotRendered \/ p # styleProps
        /\ styleProps' = p
        /\ RenderEditLabelStyle(p)
        /\ UNCHANGED styleUpdates

\* useEditAppSegmented of ./useEditAppSegmented: onClick hands the clicked
\* segment's value to the callback it was given
useEditAppSegmented(value) == value

\* a segment of the rendered control is clicked:
\* onUpdateColumnConfig({ style: value })
ClickStyle ==
    /\ styleHook # NotRendered
    /\ Len(styleUpdates) < MaxClicks
    /\ Len(styleHook.enabledOptions) > 0
    /\ \E n \in 1..Len(styleHook.options) :
           styleUpdates' = Append(styleUpdates,
                                  [style |-> useEditAppSegmented(styleHook.options[n].value)])
    /\ UNCHANGED <<styleProps, styleHook>>

StyleInit ==
    /\ styleProps = None
    /\ styleHook = NotRendered
    /\ styleUpdates = <<>>

\* ------------------------------------------------ PermissionsAppContainer
\* the PermissionApps of ./config
PermissionApps == {"OVERVIEW", "PERMISSION_GROUPS", "DATASET_GROUPS", "USERS"}

\* the routes the layout context reports: the four permission routes of a
\* dataset and any other route of BusterRoutes
BusterRoutes ==
    {"APP_DATASETS_ID_PERMISSIONS_OVERVIEW", "APP_DATASETS_ID_PERMISSIONS_PERMISSION_GROUPS",
     "APP_DATASETS_ID_PERMISSIONS_DATASET_GROUPS", "APP_DATASETS_ID_PERMISSIONS_USERS",
     "APP_SETTINGS_USERS_ID"}

\* routeToApp[route]: a Record lookup, undefined for a key that is not in it
routeToApp(route) ==
    CASE route = "APP_DATASETS_ID_PERMISSIONS_OVERVIEW" -> "OVERVIEW"
      [] route = "APP_DATASETS_ID_PERMISSIONS_PERMISSION_GROUPS" -> "PERMISSION_GROUPS"
      [] route = "APP_DATASETS_ID_PERMISSIONS_DATASET_GROUPS" -> "DATASET_GROUPS"
      [] route = "APP_DATASETS_ID_PERMISSIONS_USERS" -> "USERS"
      [] OTHER -> "undefined"

\* useState(PermissionApps.OVERVIEW)
InitialSelectedApp == "OVERVIEW"

\* the first render: the state is the initial one and the effect is scheduled
MountPermissionsApp ==
    /\ app = NotRendered
    /\ \E route \in BusterRoutes :
           app' = [mounted |-> TRUE, currentRoute |-> route,
                   selectedApp |-> InitialSelectedApp, effectPending |-> TRUE]
    /\ appRenders' = Append(appRenders, InitialSelectedApp)

\* useEffect(() => setSelectedApp(routeToApp[currentRoute]), [currentRoute]);
\* a changed state renders the component again
RunRouteEffect ==
    /\ app # NotRendered
    /\ app.effectPending
    /\ app' = [app EXCEPT !.selectedApp = routeToApp(app.currentRoute),
                          !.effectPending = FALSE]
    /\ appRenders' = IF app'.selectedApp # app.selectedApp
                     THEN Append(appRenders, app'.selectedApp)
                     ELSE appRenders

\* the layout context reports another route: the component renders with it and
\* the effect is scheduled again (its dependency changed)
RouteChanges ==
    /\ app # NotRendered
    /\ ~app.effectPending
    /\ Len(appRenders) + 1 < MaxRenders
    /\ \E route \in BusterRoutes \ {app.currentRoute} :
           app' = [app EXCEPT !.currentRoute = route, !.effectPending = TRUE]
    /\ appRenders' = Append(appRenders, app.selectedApp)

AppInit ==
    /\ app = NotRendered
    /\ appRenders = <<>>

\* neither component is on the page
ViewIdle == StyleInit /\ AppInit

\* ------------------------------------------------------- specifications
\* the pie tooltip helper on every chart within the bounds
PieSpecInit == PieInit /\ DGInit /\ UIIdle /\ PGInit /\ AxisInit /\ ViewIdle

PieNext ==
    \/ PieTooltipHelper /\ UNCHANGED <<dgVars, uiVars, pgVars, axisVars, viewVars>>
    \/ GetPiePercentage /\ UNCHANGED <<dgVars, uiVars, pgVars, axisVars, viewVars>>

SpecPie == PieSpecInit /\ [][PieNext]_vars

\* the optimistic update hooks of a dataset group and the lists they write
AssignInit == PieIdle /\ DGInit /\ UIIdle /\ PGInit /\ AxisInit /\ ViewIdle

AssignNext ==
    \/ useGetDatasetGroupList /\ UNCHANGED <<pieVars, uiVars, pgVars, axisVars, viewVars>>
    \/ useUpdateDatasetGroupUsers /\ UNCHANGED <<pieVars, uiVars, pgVars, axisVars, viewVars>>
    \/ useUpdateDatasetGroupDatasets /\ UNCHANGED <<pieVars, uiVars, pgVars, axisVars, viewVars>>
    \/ useUpdateDatasetGroupPermissionGroups
           /\ UNCHANGED <<pieVars, uiVars, pgVars, axisVars, viewVars>>
    \/ UpdateResponds /\ UNCHANGED <<pieVars, uiVars, pgVars, axisVars, viewVars>>

SpecAssign == AssignInit /\ [][AssignNext]_vars

\* the create, update and delete hooks of dataset groups
CrudInit == PieIdle /\ DGInit /\ UIIdle /\ PGInit /\ AxisInit /\ ViewIdle

CrudNext ==
    \/ useDeleteDatasetGroup /\ UNCHANGED <<pieVars, uiVars, pgVars, axisVars, viewVars>>
    \/ useUpdateDatasetGroup /\ UNCHANGED <<pieVars, uiVars, pgVars, axisVars, viewVars>>
    \/ useCreateDatasetGroup /\ UNCHANGED <<pieVars, uiVars, pgVars, axisVars, viewVars>>
    \/ DeleteOrUpdateResponds /\ UNCHANGED <<pieVars, uiVars, pgVars, axisVars, viewVars>>
    \/ CreateResponds /\ UNCHANGED <<pieVars, uiVars, pgVars, axisVars, viewVars>>
    \/ AssignmentResponds /\ UNCHANGED <<pieVars, uiVars, pgVars, axisVars, viewVars>>
    \/ RefetchSettles /\ UNCHANGED <<pieVars, uiVars, pgVars, axisVars, viewVars>>

SpecCrud == CrudInit /\ [][CrudNext]_vars

\* the user's datasets list
ListInit == PieIdle /\ DGInit /\ UIInit /\ PGInit /\ AxisInit /\ ViewIdle

ListNext ==
    \/ SelectAssigned /\ UNCHANGED <<pieVars, dgVars, pgVars, axisVars, viewVars>>
    \/ SetFilteredDatasets /\ UNCHANGED <<pieVars, dgVars, pgVars, axisVars, viewVars>>

SpecList == ListInit /\ [][ListNext]_vars

\* the update requests of permission groups
RequestsInit == PieIdle /\ DGInit /\ UIIdle /\ PGInit /\ AxisInit /\ ViewIdle

RequestsNext ==
    \/ CallUpdatePermissionGroupUsers /\ UNCHANGED <<pieVars, dgVars, uiVars, axisVars, viewVars>>
    \/ CallUpdatePermissionGroupDatasets /\ UNCHANGED <<pieVars, dgVars, uiVars, axisVars, viewVars>>
    \/ CallUpdatePermissionGroupDatasetGroups
           /\ UNCHANGED <<pieVars, dgVars, uiVars, axisVars, viewVars>>
    \/ PGResponds /\ UNCHANGED <<pieVars, dgVars, uiVars, axisVars, viewVars>>

SpecRequests == RequestsInit /\ [][RequestsNext]_vars

\* the renders of useXAxisTitle
AxisSpecInit == PieIdle /\ DGInit /\ UIIdle /\ PGInit /\ AxisInit /\ ViewIdle

AxisNext == UseXAxisTitle /\ UNCHANGED <<pieVars, dgVars, uiVars, pgVars, viewVars>>

SpecAxis == AxisSpecInit /\ [][AxisNext]_vars

\* the renders of EditLabelStyle and the clicks on its segments
StyleSpecInit == PieIdle /\ DGInit /\ UIIdle /\ PGInit /\ AxisInit /\ StyleInit /\ AppInit

StyleNext ==
    \/ EditLabelStyle /\ UNCHANGED <<pieVars, dgVars, uiVars, pgVars, axisVars, appVars>>
    \/ ClickStyle /\ UNCHANGED <<pieVars, dgVars, uiVars, pgVars, axisVars, appVars>>

SpecStyle == StyleSpecInit /\ [][StyleNext]_vars

\* the renders and the route effect of PermissionsAppContainer
AppSpecInit == PieIdle /\ DGInit /\ UIIdle /\ PGInit /\ AxisInit /\ StyleInit /\ AppInit

AppNext ==
    \/ MountPermissionsApp
           /\ UNCHANGED <<pieVars, dgVars, uiVars, pgVars, axisVars, styleVars>>
    \/ RunRouteEffect /\ UNCHANGED <<pieVars, dgVars, uiVars, pgVars, axisVars, styleVars>>
    \/ RouteChanges /\ UNCHANGED <<pieVars, dgVars, uiVars, pgVars, axisVars, styleVars>>

SpecApp == AppSpecInit /\ [][AppNext]_vars

\* ------------------------------------------------------------ pie claims
\* q is the number (v / t) * 100, for v > 0
IsPercentOf(q, v, t) ==
    IF t = 0 THEN q = [infinity |-> TRUE]
    ELSE /\ DOMAIN q = {"num", "den"}
         /\ q.den > 0
         /\ q.num * t = v * 100 * q.den

\* C1: getPiePercentage(i, k, data, label, formats, chart) returns what
\* percentageFormatter gives for the number (data[i] / seriesTotals[k]) * 100,
\* that label and those formats, for every data index i and dataset index k.
C1_PercentagePassed ==
    tooltip.fn = "getPiePercentage" =>
        LET i == dataPoints.dataIndex
            k == dataPoints.datasetIndex
            r == tooltip.returned
        IN  /\ r.formatter = "percentageFormatter"
            /\ r.label = datasets[k].label
            /\ r.formats = columnLabelFormats
            /\ IsPercentOf(r.value, datasets[k].data[i], seriesTotals[k])
            /\ Len(fmtCalls) = 1

C1_Witness ==
    /\ tooltip.fn = "getPiePercentage"
    /\ dataPoints.datasetIndex = 2
    /\ dataPoints.dataIndex = 2
    /\ seriesTotals[2] = 4
    /\ seriesTotals[1] = 0
    /\ datasets[2].data[2] = 3
    /\ tooltip.returned.value = [num |-> 75, den |-> 1]

\* C2: every hidden dataset that uses a percentage is divided by the series
\* total at its own index in the datasets array, also when two hidden
\* datasets carry the same label.
C2_TotalAtOwnIndex ==
    (tooltip.fn = "pieTooltipHelper" /\ tooltip.items # <<>>) =>
        LET hiddenIdx == HiddenIndexes(datasets, 1)
        IN  \A n \in 1..Len(hiddenIdx) :
                tooltip.items[n].usePercentage =>
                    IsPercentOf(tooltip.items[n].values[1].formattedPercentage.value,
                                datasets[hiddenIdx[n]].data[dataPoints.dataIndex],
                                seriesTotals[hiddenIdx[n]])

\* ------------------------------------------------ dataset-group claims
\* the indexes of the hidden datasets
HiddenSet == {k \in 1..Len(datasets) : datasets[k].hidden}

\* the n-th hidden dataset in the order of the datasets array
NthHidden(n) ==
    datasets[CHOOSE k \in HiddenSet : Cardinality({j \in HiddenSet : j <= k}) = n]

\* C16: pieTooltipHelper returns the empty list when the hovered dataset's label
\* is the label of no hidden dataset; otherwise one item per hidden dataset, in
\* the order of the datasets array, each with one value formatted from that
\* dataset's data at the hovered data index, and a color (the hovered dataset's
\* backgroundColor at the hovered data index) exactly on the items whose label
\* is the hovered dataset's.
C16_ItemPerHiddenDataset ==
    tooltip.fn = "pieTooltipHelper" =>
        LET hovered == datasets[dataPoints.datasetIndex]
            i == dataPoints.dataIndex
            items == tooltip.items
        IN  IF \A k \in HiddenSet : datasets[k].label # hovered.label
            THEN Len(items) = 0
            ELSE /\ Len(items) = Cardinality(HiddenSet)
                 /\ \A n \in 1..Len(items) :
                        LET hidden == NthHidden(n)
                        IN  /\ items[n].formattedLabel =
                                   formatChartLabelDelimiter(hidden.label, columnLabelFormats)
                            /\ Len(items[n].values) = 1
                            /\ items[n].values[1].formattedValue =
                                   formatChartValueDelimiter(hidden.data[i], hidden.label,
                                                             columnLabelFormats)
                            /\ items[n].color =
                                   IF hidden.label = hovered.label
                                   THEN backgroundColor(dataPoints.datasetIndex, i)
                                   ELSE Undefined

C16_Witness ==
    /\ tooltip.fn = "pieTooltipHelper"
    /\ Len(datasets) = 2
    /\ datasets[1].hidden /\ datasets[2].hidden
    /\ datasets[1].label = "a" /\ datasets[2].label = "b"
    /\ dataPoints = [dataIndex |-> 2, datasetIndex |-> 2]
    /\ datasets[1].data[2] = 3
    /\ Len(tooltip.items) = 2
    /\ tooltip.items[1].color = Undefined
    /\ tooltip.items[1].values[1].formattedValue.value = 3
    /\ tooltip.items[2].color = backgroundColor(2, 2)

\* C17: in every item usePercentage is true exactly when the hidden dataset's
\* label is in keyToUsePercentage and formattedPercentage is defined exactly
\* then; getPiePercentage is evaluated for no label outside keyToUsePercentage.
C17_PercentageOnlyForKeys ==
    tooltip.fn = "pieTooltipHelper" =>
        /\ \A n \in 1..Len(tooltip.items) :
               LET item == tooltip.items[n]
                   label == item.formattedLabel.label
               IN  /\ item.usePercentage <=> label \in keyToUsePercentage
                   /\ item.values[1].formattedPercentage # Undefined
                          <=> label \in keyToUsePercentage
        /\ \A c \in 1..Len(fmtCalls) : fmtCalls[c].label \in keyToUsePercentage

C17_Witness ==
    /\ tooltip.fn = "pieTooltipHelper"
    /\ keyToUsePercentage = {"a"}
    /\ Len(tooltip.items) = 2
    /\ tooltip.items[1].formattedLabel.label = "a"
    /\ tooltip.items[1].usePercentage
    /\ tooltip.items[1].values[1].formattedPercentage.formatter = "percentageFormatter"
    /\ tooltip.items[2].formattedLabel.label = "b"
    /\ ~tooltip.items[2].usePercentage
    /\ tooltip.items[2].values[1].formattedPercentage = Undefined
    /\ Len(fmtCalls) = 1

Names(data, id) == \E k \in 1..Len(data) : data[k].id = id

\* the assigned value of the first entry of data with that id
FirstAssigned(data, id) ==
    data[CHOOSE k \in 1..Len(data) :
            data[k].id = id /\ \A j \in 1..(k - 1) : data[j].id # id].assigned

IsUpdateHook(mutation) == mutation.hook \in Kinds

Rewritten(list, data) ==
    \A n \in 1..Len(list) :
        Names(data, list[n].id) => list[n].assigned = FirstAssigned(data, list[n].id)

\* C3: an update hook invoked with data while its query holds a cached list
\* rewrites the cache before it issues the PUT (every cached row whose id occurs
\* in data gets the assigned value of the first entry of data with that id) and
\* sends that same data in exactly one PUT request.
C3_OptimisticThenPut ==
    [][/\ \A m \in 1..Len(mutations') :
            IsUpdateHook(mutations'[m]) => Cardinality(RequestsBy(requests', m)) <= 1
       /\ (/\ Len(mutations') = Len(mutations) + 1
           /\ IsUpdateHook(mutations'[Len(mutations')])
           /\ queryCache[QueryKey(mutations'[Len(mutations')].hook)] # Absent)
          => LET m == Len(mutations')
                 hook == mutations'[m].hook
                 data == mutations'[m].data
                 sent == requests'[Len(requests')]
             IN  /\ Len(requests') = Len(requests) + 1
                 /\ sent.by = m
                 /\ sent.state = "inflight"
                 /\ sent.method = "PUT"
                 /\ sent.fn = RequestFns[hook]
                 /\ sent.args = <<datasetGroupId, data>>
                 /\ Rewritten(queryCache'[QueryKey(hook)], data)
                 /\ sent.cacheSeen = queryCache'[QueryKey(hook)]
                 /\ mutations'[m].outcome = Pending]_vars

C3_Witness ==
    /\ Len(mutations) = 1
    /\ mutations[1].hook = "datasets"
    /\ mutations[1].data = <<[id |-> "r1", assigned |-> TRUE],
                             [id |-> "r1", assigned |-> FALSE]>>
    /\ Len(requests) = 1
    /\ InFlight(1)
    /\ requests[1].args = <<datasetGroupId, mutations[1].data>>
    /\ queryCache[QueryKey("datasets")] # Absent
    /\ queryCache[QueryKey("datasets")][1].assigned = TRUE
    /\ ServerList("datasets")[1].assigned = FALSE

\* C4: when the PUT of an update hook rejects, the mutation rejects with that
\* error, no second request is issued (no retry) and the cache keeps the
\* optimistically written values.
C4_RejectKeepsCache ==
    [][\A r \in 1..Len(requests) :
          (/\ InFlight(r)
           /\ IsUpdateHook(mutations[requests[r].by])
           /\ requests'[r].state = "rejected")
          => /\ mutations'[requests[r].by].outcome = Rejected(requests'[r].response.error)
             /\ queryCache' = queryCache
             /\ Len(requests') = Len(requests)
             /\ RequestsBy(requests', requests[r].by) = {r}]_vars

C4_Witness ==
    /\ Len(mutations) = 1
    /\ Len(requests) = 1
    /\ requests[1].state = "rejected"
    /\ mutations[1].hook = "users"
    /\ mutations[1].data = <<[id |-> "r1", assigned |-> TRUE]>>
    /\ mutations[1].outcome = Rejected("e1")
    /\ queryCache[QueryKey("users")][1].assigned = TRUE
    /\ ServerList("users")[1].assigned = FALSE

Completed(r) == \E n \in 1..Len(completed) : completed[n] = r

\* C7: overlapping updates of one hook are not serialized: a pending update has
\* its PUT out whatever else is in flight, and once the PUTs of two updates have
\* completed, in either order, a cached row named by both holds the value of the
\* later-invoked one (unless a still later update names the row).
C7_LaterInvokedWins ==
    /\ \A m \in 1..Len(mutations) :
          (IsUpdateHook(mutations[m]) /\ mutations[m].outcome = Pending)
          => \E r \in RequestsBy(requests, m) : InFlight(r)
    /\ \A r1, r2 \in 1..Len(requests) :
          (/\ r1 < r2
           /\ Completed(r1) /\ Completed(r2)
           /\ IsUpdateHook(mutations[requests[r1].by])
           /\ mutations[requests[r1].by].hook = mutations[requests[r2].by].hook)
          => LET hook == mutations[requests[r2].by].hook
                 list == queryCache[QueryKey(hook)]
                 first == mutations[requests[r1].by].data
                 later == mutations[requests[r2].by].data
                 NamedLater(id) ==
                     \E m \in (requests[r2].by + 1)..Len(mutations) :
                         mutations[m].hook = hook /\ Names(mutations[m].data, id)
             IN  \A n \in 1..Len(list) :
                     (Names(first, list[n].id) /\ Names(later, list[n].id)
                      /\ ~NamedLater(list[n].id))
                     => list[n].assigned = FirstAssigned(later, list[n].id)

C7_Witness ==
    /\ Len(requests) = 2
    /\ completed = <<2, 1>>
    /\ requests[2].sentWhile = {1}
    /\ mutations[1].hook = "permission_groups"
    /\ mutations[2].hook = "permission_groups"
    /\ mutations[1].data = <<[id |-> "r1", assigned |-> TRUE]>>
    /\ mutations[2].data = <<[id |-> "r1", assigned |-> FALSE]>>
    /\ requests[1].state = "resolved"
    /\ requests[2].state = "rejected"
    /\ queryCache[QueryKey("permission_groups")][1].assigned = FALSE

PrimaryFns == {"deleteDatasetGroup", "updateDatasetGroup", "createDatasetGroup"}

InvalidationsBy(m) == {i \in 1..Len(invalidations) : invalidations[i].by = m}

\* C5: when the request of useDeleteDatasetGroup, useUpdateDatasetGroup or the
\* create request of useCreateDatasetGroup rejects, the mutation rejects with
\* that error, nothing is invalidated, no follow-up request is sent and the
\* request is not sent again.
C5_RejectStopsMutation ==
    \A r \in 1..Len(requests) :
        (requests[r].fn \in PrimaryFns /\ requests[r].state = "rejected")
        => /\ mutations[requests[r].by].outcome = Rejected(requests[r].response.error)
           /\ InvalidationsBy(requests[r].by) = {}
           /\ RequestsBy(requests, requests[r].by) = {r}

C5_Witness ==
    /\ Len(mutations) = 1
    /\ mutations[1].hook = "create"
    /\ mutations[1].datasetId = "d1"
    /\ mutations[1].userId = "u1"
    /\ mutations[1].outcome = Rejected("e1")
    /\ Len(requests) = 1
    /\ requests[1].fn = "createDatasetGroup"
    /\ requests[1].state = "rejected"
    /\ invalidations = <<>>

\* C6: every mutation that changes the set of dataset groups (create, update,
\* delete) has invalidated ['dataset_groups'] after its request succeeded and
\* before it resolves, whatever datasetId and userId useCreateDatasetGroup got.
C6_ListInvalidated ==
    \A m \in 1..Len(mutations) :
        (mutations[m].hook \in {"create", "update", "delete"}
         /\ mutations[m].outcome.status = "success")
        => \E i \in InvalidationsBy(m) :
               /\ invalidations[i].key = DatasetGroupsKey
               /\ \E r \in RequestsBy(requests, m) :
                      requests[r].fn \in PrimaryFns /\ requests[r].state = "resolved"

\* C8: a selection in the assigned cell of a row invokes the user's update
\* mutation exactly once, with the one-element list [{id: the row's id,
\* assigned: the selected value}], and nothing else invokes it.
C8_OneCallPerSelection ==
    /\ Len(mutateCalls) = Len(selectEvents)
    /\ \A n \in 1..Len(selectEvents) :
          /\ mutateCalls[n].hook = "useUpdateUserDatasetGroups"
          /\ mutateCalls[n].userId = userId
          /\ mutateCalls[n].data = <<[id |-> selectEvents[n].id,
                                      assigned |-> selectEvents[n].value]>>

C8_Witness ==
    /\ filteredDatasets = <<[id |-> "d1", assigned |-> TRUE],
                            [id |-> "d2", assigned |-> FALSE]>>
    /\ selectEvents = <<[id |-> "d2", value |-> TRUE]>>
    /\ mutateCalls = <<[hook |-> "useUpdateUserDatasetGroups", userId |-> userId,
                        data |-> <<[id |-> "d2", assigned |-> TRUE]>>]>>

PathEnd ==
    [updatePermissionGroupUsers |-> "users",
     updatePermissionGroupDatasets |-> "datasets",
     updatePermissionGroupDatasetGroups |-> "dataset_groups"]

\* C9: each of updatePermissionGroupUsers, updatePermissionGroupDatasets and
\* updatePermissionGroupDatasetGroups issues exactly one PUT, to
\* /permission_groups/{id}/users, /datasets and /dataset_groups respectively,
\* with the given list as its body, and resolves with the body of the response
\* or rejects with the client's error.
C9_OnePutPerCall ==
    /\ Len(pgRequests) = Len(pgCalls)
    /\ \A n \in 1..Len(pgCalls) :
          LET call == pgCalls[n]
              request == pgRequests[n]
          IN  /\ request.by = n
              /\ request.method = "PUT"
              /\ request.url = <<"permission_groups", call.params.id, PathEnd[call.fn]>>
              /\ request.body = call.params.data
              /\ request.state = "inflight" => call.outcome = Pending
              /\ request.state = "resolved"
                     => call.outcome = Resolved(request.settled.res.data)
              /\ request.state = "rejected"
                     => call.outcome = Rejected(request.settled.error)

C9_Witness ==
    /\ Len(pgCalls) = 2
    /\ pgCalls[1].fn = "updatePermissionGroupDatasets"
    /\ pgCalls[1].params.id = "p2"
    /\ Len(pgCalls[1].params.data) = 2
    /\ pgRequests[1].url = <<"permission_groups", "p2", "datasets">>
    /\ pgCalls[1].outcome = Rejected("e1")
    /\ pgCalls[2].fn = "updatePermissionGroupDatasetGroups"
    /\ pgCalls[2].outcome = Resolved("body2")

\* C10: on every render useXAxisTitle returns the title derived from the
\* current props; in particular a change of selectedAxis.x alone changes it.
C10_TitleOfCurrentProps ==
    axisHook.mounted => axisHook.xAxisTitle = ComputeXAxisTitle(axisProps)

\* ------------------------------------------------- update hooks, further
\* new is old but for the assigned flag
SameButAssigned(old, new) ==
    /\ DOMAIN new = DOMAIN old
    /\ \A f \in DOMAIN old \ {"assigned"} : new[f] = old[f]

\* C13: the optimistic rewrite of an update hook changes nothing but the
\* assigned flag of the rows named in data: the cached list keeps its length,
\* order and ids, rows not named are unchanged, the other fields of a named row
\* are unchanged, no row is added, and the lists under the other query keys
\* are untouched.
C13_RewriteFrame ==
    [][(/\ Len(mutations') = Len(mutations) + 1
        /\ IsUpdateHook(mutations'[Len(mutations')])
        /\ queryCache[QueryKey(mutations'[Len(mutations')].hook)] # Absent)
       => LET key == QueryKey(mutations'[Len(mutations')].hook)
              data == mutations'[Len(mutations')].data
              old == queryCache[key]
              new == queryCache'[key]
          IN  /\ DOMAIN queryCache' = DOMAIN queryCache
              /\ \A k \in DOMAIN queryCache \ {key} : queryCache'[k] = queryCache[k]
              /\ new # Absent
              /\ Len(new) = Len(old)
              /\ \A n \in 1..Len(old) :
                     /\ SameButAssigned(old[n], new[n])
                     /\ ~Names(data, old[n].id) => new[n] = old[n]]_vars

C13_Witness ==
    /\ Len(mutations) = 1
    /\ Len(requests) = 1
    /\ mutations[1].hook = "users"
    /\ mutations[1].data = <<[id |-> "r3", assigned |-> FALSE],
                             [id |-> "r1", assigned |-> TRUE]>>
    /\ \A key \in ListKeys : queryCache[key] # Absent
    /\ queryCache[QueryKey("users")] =
           <<[ServerList("users")[1] EXCEPT !.assigned = TRUE], ServerList("users")[2]>>
    /\ queryCache[QueryKey("datasets")] = ServerList("datasets")
    /\ queryCache[QueryKey("permission_groups")] = ServerList("permission_groups")

\* C14: every invocation of an update hook sends its PUT request, also when
\* the matching query holds no cached data.
C14_PutOnEveryInvocation ==
    \A m \in 1..Len(mutations) :
        IsUpdateHook(mutations[m])
        => \E r \in RequestsBy(requests, m) :
               /\ requests[r].method = "PUT"
               /\ requests[r].args = <<datasetGroupId, mutations[m].data>>

\* the requests by which mutation m assigns the created group to its dataset
AssignmentRequests(m) ==
    {r \in RequestsBy(requests, m) : requests[r].fn = "updateDatasetDatasetGroups"}

\* C15: in useCreateDatasetGroup with a datasetId the assignment request (groups
\* [{id: created id, assigned: true}]) is sent only after the create request
\* has resolved, and the refetch started by invalidating
\* [LIST_DATASET_GROUPS_QUERY_KEY, datasetId] never starts while that
\* assignment request is still in flight.
C15_RefetchAfterAssignment ==
    \A m \in 1..Len(mutations) :
        (mutations[m].hook = "create" /\ mutations[m].datasetId # NoId)
        => /\ \A r \in AssignmentRequests(m) :
                  /\ \E c \in RequestsBy(requests, m) :
                         /\ requests[c].fn = "createDatasetGroup"
                         /\ requests[c].state = "resolved"
                         /\ c \notin requests[r].sentWhile
                         /\ requests[r].args =
                                <<[dataset_id |-> mutations[m].datasetId,
                                   groups |-> <<[id |-> requests[c].response.data.id,
                                                 assigned |-> TRUE]>>]>>
           /\ \A i \in InvalidationsBy(m) :
                  invalidations[i].key = DatasetListKey(mutations[m].datasetId)
                  => invalidations[i].startedWhile \cap AssignmentRequests(m) = {}

\* ------------------------------------------------------------ rows claims
IsHeader(row) == "rowSection" \in DOMAIN row

\* the indexes of the rows of datasets
DataRowIndexes(rows) == {n \in 1..Len(rows) : ~IsHeader(rows[n])}

\* the position of the dataset with this id in the filteredDatasets prop
PositionOf(id) == CHOOSE k \in 1..Len(filteredDatasets) : filteredDatasets[k].id = id

CountAssigned(value) ==
    Cardinality({k \in 1..Len(filteredDatasets) : filteredDatasets[k].assigned = value})

DecimalOf(n) == <<<<"0", "1", "2", "3", "4", "5", "6", "7", "8", "9">>[n + 1]>>

\* the header with this id and title, when its group is not empty, is the row
\* at this index and shows the size of the group; otherwise it is no row
HeaderAt(rows, id, title, count, index) ==
    IF count = 0
    THEN \A n \in 1..Len(rows) : rows[n].id # id
    ELSE /\ index \in 1..Len(rows)
         /\ rows[index].id = id
         /\ IsHeader(rows[index])
         /\ rows[index].rowSection.title = title
         /\ rows[index].rowSection.secondaryTitle = DecimalOf(count)
         /\ \A n \in 1..Len(rows) : rows[n].id = id => n = index

\* C12: the rows are a partition of filteredDatasets: every dataset is exactly
\* one row, assigned rows come before the others, each group keeps the input
\* order, each non-empty group is preceded by its header ('Assigned', 'Not
\* Assigned') showing the size of the group, and an empty group has no header.
C12_RowsPartition ==
    LET rows == ListRows(filteredDatasets)
        data == DataRowIndexes(rows)
        assignedCount == CountAssigned(TRUE)
        otherCount == CountAssigned(FALSE)
        firstHeader == IF assignedCount = 0 THEN 0 ELSE 1
    IN  /\ \A k \in 1..Len(filteredDatasets) :
               Cardinality({n \in data : rows[n].data = filteredDatasets[k]}) = 1
        /\ Cardinality(data) = Len(filteredDatasets)
        /\ \A n \in data : rows[n].id = rows[n].data.id
        /\ \A i, j \in data :
               i < j => /\ rows[i].data.assigned \/ ~rows[j].data.assigned
                        /\ rows[i].data.assigned = rows[j].data.assigned
                               => PositionOf(rows[i].id) < PositionOf(rows[j].id)
        /\ HeaderAt(rows, "header-assigned", "Assigned", assignedCount, 1)
        /\ HeaderAt(rows, "header-not-assigned", "Not Assigned", otherCount,
                    firstHeader + assignedCount + 1)
        /\ \A n \in 1..Len(rows) : IsHeader(rows[n]) =>
               rows[n].id \in {"header-assigned", "header-not-assigned"}

C12_Witness ==
    /\ filteredDatasets = <<[id |-> "d1", assigned |-> FALSE],
                            [id |-> "d2", assigned |-> TRUE]>>
    /\ Len(ListRows(filteredDatasets)) = 4
    /\ ListRows(filteredDatasets)[2].id = "d2"
    /\ ListRows(filteredDatasets)[4].id = "d1"
    /\ Len(selectEvents) = 1

\* ------------------------------------------------------ component claims
\* the options the current props call for
OptionsOfProps(p) ==
    ComputeOptions(ComputeEnabledOptions(p.columnType, p.convertNumberTo))

\* C11: on every render the options EditLabelStyle offers are those of the
\* current props (number, percent, currency, plus date exactly when
\* convertNumberTo is set; date alone for a date column; none otherwise), and
\* it renders nothing exactly when there are none.
C11_OptionsOfCurrentProps ==
    styleHook.mounted =>
        /\ styleHook.options = OptionsOfProps(styleProps)
        /\ (styleHook.element = [null |-> TRUE]) <=> (OptionsOfProps(styleProps) = <<>>)
        /\ styleHook.element # [null |-> TRUE]
               => styleHook.element.options = OptionsOfProps(styleProps)

\* C18: selectedApp is always one of the four PermissionApps; it starts as
\* OVERVIEW and, once the effect of a route change has run, is the app mapped
\* to the current route.
C18_SelectedAppOfRoute ==
    app.mounted =>
        /\ app.selectedApp \in PermissionApps
        /\ appRenders[1] = "OVERVIEW"
        /\ ~app.effectPending => app.selectedApp = routeToApp(app.currentRoute)

====
